---- MODULE Spec2Model ----
(***************************************************************************)
(* Brute-force optimiser of main.py: the discrete scanner                  *)
(* maquina_turing_discreta, the continuous refiner maquina_turing_continua *)
(* and the dispatcher maquina_turing.                                      *)
(*                                                                         *)
(* Numbers.  Every abscissa x is held as the integer x * Scale and every   *)
(* ordinate of f_continua as the integer f * Scale^2, so the arithmetic of *)
(* the model is exact.  The inputs drawn in Init (integer interval bounds, *)
(* step sizes 1/2 to 2, at most MaxIter halvings) are dyadic numbers       *)
(* on which the float64 arithmetic of Python and numpy is exact as well,   *)
(* so on these inputs the model computes what the code computes.  Binary   *)
(* rounding of non-dyadic steps (such as the default 0.1) is not modelled; *)
(* continuous calls therefore always pass delta_x.                         *)
(*                                                                         *)
(* A Python value is a pair: <<"None", 0>>, <<"num", n>> or <<"inf", s>>   *)
(* with s = -1 for float('-inf') and s = 1 for float('inf').               *)
(***************************************************************************)
EXTENDS Integers, Sequences, FiniteSets, TLC

VARIABLES
    pc,            \* "inicio", "scan", "refinar", "ronda", "fin", "error"
    func, dominio, tipo, kwargs,             \* arguments of maquina_turing
    maximizar, x_values, idx, x_opt, f_opt,  \* maquina_turing_discreta
    a, b, delta_x, refinamiento, iteraciones, ronda, cx_opt, cf_opt,
                                             \* maquina_turing_continua
    result,        \* the pair returned to the caller
    exc,           \* "" or the exception that reached the caller
    calls,         \* arguments of func during the current scan, in order
    nfunc, nscan, ncont,  \* invocations of func / scanner / refiner so far
    hist           \* one record per finished round of the refiner

vars == <<pc, func, dominio, tipo, kwargs, maximizar, x_values, idx, x_opt,
          f_opt, a, b, delta_x, refinamiento, iteraciones, ronda, cx_opt,
          cf_opt, result, exc, calls, nfunc, nscan, ncont, hist>>

----------------------------------------------------------------------------
(* Bounds of the model *)

MaxIter == 3
MaxB == 4
MaxLen == 3
MaxCand == 2

RECURSIVE Pow2(_)
Pow2(n) == IF n = 0 THEN 1 ELSE 2 * Pow2(n - 1)

\* One unit of the model is 1/Scale: 1/10 and every halving of 1/2 are whole.
Scale == 10 * Pow2(MaxIter + 1)

----------------------------------------------------------------------------
(* Python values *)

None == <<"None", 0>>
Num(n) == <<"num", n>>
NegInf == <<"inf", -1>>
PosInf == <<"inf", 1>>

IsNum(v) == v[1] = "num"

\* u > v on floats (no NaN).
Gt(u, v) ==
    CASE u = PosInf -> v # PosInf
      [] u = NegInf -> FALSE
      [] v = PosInf -> FALSE
      [] v = NegInf -> TRUE
      [] OTHER -> u[2] > v[2]

Lt(u, v) == Gt(v, u)

PyMax(p, q) == IF q > p THEN q ELSE p
PyMin(p, q) == IF q < p THEN q ELSE p

\* kwargs.get(key, default)
Get(kw, key, default) == IF key \in DOMAIN kw THEN kw[key] ELSE default

----------------------------------------------------------------------------
(* Objective functions *)

Vals == {NegInf, Num(0), Num(1), PosInf}
Cands == 1..MaxCand
Tab0 == [x \in Cands |-> Num(0)]

\* f_continua(x) = -x**2 + 4*x, in units of 1/Scale^2
f_continua(x) == Num(4 * Scale * x - x * x)

\* func(x)
Apply(f, x) ==
    CASE f.kind = "tabla" -> f.tab[x]
      [] f.kind = "constante" -> f.c
      [] OTHER -> f_continua(x)

----------------------------------------------------------------------------
(* maquina_turing_discreta *)

\* Mutant of Sentinel: the two infinities exchanged.
SentinelInvertido(mx) == IF mx THEN PosInf ELSE NegInf

Sentinel(mx) == IF mx THEN NegInf ELSE PosInf

Mejora(f_x, fo, mx) == (mx /\ Gt(f_x, fo)) \/ (~mx /\ Lt(f_x, fo))

\* The whole call as a function of its arguments: the loop from position i.
RECURSIVE ScanDesde(_, _, _, _, _, _)
ScanDesde(f, dom, i, xo, fo, mx) ==
    IF i > Len(dom) THEN <<xo, fo>>
    ELSE LET f_x == Apply(f, dom[i])
         IN  IF Mejora(f_x, fo, mx)
             THEN ScanDesde(f, dom, i + 1, Num(dom[i]), f_x, mx)
             ELSE ScanDesde(f, dom, i + 1, xo, fo, mx)

maquina_turing_discreta(f, dom, mx) ==
    ScanDesde(f, dom, 1, None, Sentinel(mx), mx)

\* Entry of the scanner: its locals before the loop.
ScanInicio(dom, mx) ==
    /\ x_values' = dom
    /\ maximizar' = mx
    /\ x_opt' = None
    /\ f_opt' = Sentinel(mx)
    /\ idx' = 0
    /\ calls' = << >>
    /\ nscan' = nscan + 1

\* Mutant of ScanPaso: func evaluated twice per candidate, once for the test
\* and once for the assignment.
ScanPasoDoble ==
    /\ pc = "scan"
    /\ idx < Len(x_values)
    /\ LET x == x_values[idx + 1]
           f_x == Apply(func, x)
       IN  /\ calls' = Append(Append(calls, x), x)
           /\ nfunc' = nfunc + 2
           /\ IF Mejora(f_x, f_opt, maximizar)
              THEN f_opt' = f_x /\ x_opt' = Num(x)
              ELSE UNCHANGED <<f_opt, x_opt>>
    /\ idx' = idx + 1
    /\ UNCHANGED <<pc, func, dominio, tipo, kwargs, maximizar, x_values, a, b,
                   delta_x, refinamiento, iteraciones, ronda, cx_opt, cf_opt,
                   result, exc, nscan, ncont, hist>>

\* One iteration of "for x in dominio".
ScanPaso ==
    /\ pc = "scan"
    /\ idx < Len(x_values)
    /\ LET x == x_values[idx + 1]
           f_x == Apply(func, x)
       IN  /\ calls' = Append(calls, x)
           /\ nfunc' = nfunc + 1
           /\ IF Mejora(f_x, f_opt, maximizar)
              THEN f_opt' = f_x /\ x_opt' = Num(x)
              ELSE UNCHANGED <<f_opt, x_opt>>
    /\ idx' = idx + 1
    /\ UNCHANGED <<pc, func, dominio, tipo, kwargs, maximizar, x_values, a, b,
                   delta_x, refinamiento, iteraciones, ronda, cx_opt, cf_opt,
                   result, exc, nscan, ncont, hist>>

\* "return x_opt, f_opt": to the dispatcher's caller, or to the refiner.
ScanRetorno ==
    /\ pc = "scan"
    /\ idx = Len(x_values)
    /\ IF tipo = "discreto"
       THEN /\ result' = <<x_opt, f_opt>>
            /\ pc' = "fin"
            /\ UNCHANGED <<cx_opt, cf_opt, hist>>
       ELSE /\ cx_opt' = x_opt
            /\ cf_opt' = f_opt
            /\ hist' = Append(hist, [a |-> a, b |-> b, delta_x |-> delta_x,
                                     x_values |-> x_values,
                                     x_opt |-> x_opt, f_opt |-> f_opt])
            /\ pc' = "refinar"
            /\ UNCHANGED result
    /\ UNCHANGED <<func, dominio, tipo, kwargs, maximizar, x_values, idx,
                   x_opt, f_opt, a, b, delta_x, refinamiento, iteraciones,
                   ronda, exc, calls, nfunc, nscan, ncont>>

----------------------------------------------------------------------------
(* maquina_turing_continua *)

CeilDiv(p, q) == (p + q - 1) \div q

\* np.arange(start, stop, step): ceil((stop - start)/step) values start + i*step
np_arange(start, stop, step) ==
    LET n == IF stop > start THEN CeilDiv(stop - start, step) ELSE 0
    IN  [i \in 1..n |-> start + (i - 1) * step]

\* Mutant of Grid: the end bound b instead of b + delta_x.
GridSinExtremo(lo, hi, d) == np_arange(lo, hi, d)

Grid(lo, hi, d) == np_arange(lo, hi + d, d)

\* Mutants of the refinement step: a window that slides below a, an upper
\* bound taken on the wrong side of x_opt, a step that doubles.
NuevoASinTope(lo, xo, d) == xo - d
NuevoBSigno(hi, xo, d) == PyMin(hi, xo - d)
DobleDelta(d) == d * 2

NuevoA(lo, xo, d) == PyMax(lo, xo - d)
NuevoB(hi, xo, d) == PyMin(hi, xo + d)
MitadDelta(d) == d \div 2

\* Top of "for _ in range(iteraciones)": build the grid and call the scanner.
RondaInicio ==
    /\ pc = "ronda"
    /\ ronda < iteraciones
    /\ ScanInicio(Grid(a, b, delta_x), maximizar)
    /\ pc' = "scan"
    /\ UNCHANGED <<func, dominio, tipo, kwargs, a, b, delta_x, refinamiento,
                   iteraciones, ronda, cx_opt, cf_opt, result, exc, nfunc,
                   ncont, hist>>

\* Mutant of Refinar: the interval is refined whatever the flag says.
RefinarSiempre ==
    /\ pc = "refinar"
    /\ IF IsNum(cx_opt)
       THEN /\ a' = PyMax(a, cx_opt[2] - delta_x)
            /\ b' = PyMin(b, cx_opt[2] + delta_x)
            /\ delta_x' = delta_x \div 2
            /\ ronda' = ronda + 1
            /\ pc' = "ronda"
            /\ UNCHANGED exc
       ELSE /\ exc' = "TypeError"
            /\ pc' = "error"
            /\ UNCHANGED <<a, b, delta_x, ronda>>
    /\ UNCHANGED <<func, dominio, tipo, kwargs, maximizar, x_values, idx,
                   x_opt, f_opt, refinamiento, iteraciones, cx_opt, cf_opt,
                   result, calls, nfunc, nscan, ncont, hist>>

\* "if refinamiento: ..." and the end of the loop body.
Refinar ==
    /\ pc = "refinar"
    /\ IF refinamiento
       THEN IF IsNum(cx_opt)
            THEN /\ a' = NuevoA(a, cx_opt[2], delta_x)
                 /\ b' = NuevoB(b, cx_opt[2], delta_x)
                 /\ delta_x' = MitadDelta(delta_x)
                 /\ ronda' = ronda + 1
                 /\ pc' = "ronda"
                 /\ UNCHANGED exc
            ELSE \* None - delta_x
                 /\ exc' = "TypeError"
                 /\ pc' = "error"
                 /\ UNCHANGED <<a, b, delta_x, ronda>>
       ELSE /\ ronda' = ronda + 1
            /\ pc' = "ronda"
            /\ UNCHANGED <<a, b, delta_x, exc>>
    /\ UNCHANGED <<func, dominio, tipo, kwargs, maximizar, x_values, idx,
                   x_opt, f_opt, refinamiento, iteraciones, cx_opt, cf_opt,
                   result, calls, nfunc, nscan, ncont, hist>>

\* "return x_opt, f_opt" after the last round.
ContinuaRetorno ==
    /\ pc = "ronda"
    /\ ronda = iteraciones
    /\ result' = <<cx_opt, cf_opt>>
    /\ pc' = "fin"
    /\ UNCHANGED <<func, dominio, tipo, kwargs, maximizar, x_values, idx,
                   x_opt, f_opt, a, b, delta_x, refinamiento, iteraciones,
                   ronda, cx_opt, cf_opt, exc, calls, nfunc, nscan, ncont,
                   hist>>

----------------------------------------------------------------------------
(* maquina_turing *)

\* Binding **kwargs to (func, dominio, maximizar=True): any other keyword is
\* "got an unexpected keyword argument".
KwargsDiscretaOk(kw) == DOMAIN kw \subseteq {"maximizar"}

\* Mutant of DominioContinuoOk: the length is tested, the type is not.
DominioSoloLongitud(dom) == Len(dom.elems) = 2

\* not isinstance(dominio, tuple) or len(dominio) != 2, negated
DominioContinuoOk(dom) == dom.kind = "tuple" /\ Len(dom.elems) = 2

DefaultDeltaX == Scale \div 10

Raise(e) ==
    /\ exc' = e
    /\ pc' = "error"
    /\ UNCHANGED <<func, dominio, tipo, kwargs, maximizar, x_values, idx,
                   x_opt, f_opt, a, b, delta_x, refinamiento, iteraciones,
                   ronda, cx_opt, cf_opt, result, calls, nfunc, nscan, ncont,
                   hist>>

\* tipo == "discreto"
DespachoDiscreto ==
    /\ pc = "inicio"
    /\ tipo = "discreto"
    /\ IF KwargsDiscretaOk(kwargs)
       THEN /\ ScanInicio(dominio.elems, Get(kwargs, "maximizar", TRUE))
            /\ pc' = "scan"
            /\ UNCHANGED <<func, dominio, tipo, kwargs, a, b, delta_x,
                           refinamiento, iteraciones, ronda, cx_opt, cf_opt,
                           result, exc, nfunc, ncont, hist>>
       ELSE Raise("TypeError")

\* tipo == "continuo"
DespachoContinuo ==
    /\ pc = "inicio"
    /\ tipo = "continuo"
    /\ IF DominioContinuoOk(dominio)
       THEN /\ a' = dominio.elems[1]
            /\ b' = dominio.elems[2]
            /\ delta_x' = Get(kwargs, "delta_x", DefaultDeltaX)
            /\ refinamiento' = Get(kwargs, "refinamiento", FALSE)
            /\ iteraciones' = Get(kwargs, "iteraciones", 1)
            /\ maximizar' = Get(kwargs, "maximizar", TRUE)
            /\ ronda' = 0
            /\ ncont' = ncont + 1
            /\ pc' = "ronda"
            /\ UNCHANGED <<func, dominio, tipo, kwargs, x_values, idx, x_opt,
                           f_opt, cx_opt, cf_opt, result, exc, calls, nfunc,
                           nscan, hist>>
       ELSE Raise("ValueError")

\* else: raise ValueError
DespachoInvalido ==
    /\ pc = "inicio"
    /\ tipo \notin {"discreto", "continuo"}
    /\ Raise("ValueError")

----------------------------------------------------------------------------
(* The calls the model makes *)

RECURSIVE SeqsUpTo(_, _)
SeqsUpTo(S, n) ==
    IF n = 0 THEN {<< >>}
    ELSE LET R == SeqsUpTo(S, n - 1)
         IN  R \cup {Append(s, x) : s \in {r \in R : Len(r) = n - 1}, x \in S}

Tablas == {[kind |-> "tabla", tab |-> t, c |-> Num(0)] : t \in [Cands -> Vals]}

Formulas ==
    {[kind |-> "f_continua", tab |-> Tab0, c |-> Num(0)]}
    \cup {[kind |-> "constante", tab |-> Tab0, c |-> v] : v \in {NegInf, Num(0)}}

Listas == {[kind |-> "list", elems |-> s] : s \in SeqsUpTo(Cands, MaxLen)}

Intervalos ==
    {[kind |-> "tuple", elems |-> <<lo * Scale, hi * Scale>>] :
        lo \in 0..MaxB, hi \in 0..MaxB}

Malformados ==
    {[kind |-> "tuple", elems |-> <<0>>],
     [kind |-> "tuple", elems |-> <<0, Scale, 2 * Scale>>],
     [kind |-> "list", elems |-> <<0, 4 * Scale>>]}

\* Step sizes 1/2, 3/4, 1, 3/2 and 2
DeltaSet ==
    {Scale \div 2, 3 * (Scale \div 4), Scale, 3 * (Scale \div 2), 2 * Scale}

\* Keyword bags: each key absent or bound.
EmptyKw == << >>
KwMaximizar == {EmptyKw} \cup {"maximizar" :> v : v \in BOOLEAN}
KwDelta == {"delta_x" :> d : d \in DeltaSet}
KwRefinamiento == {EmptyKw} \cup {"refinamiento" :> v : v \in BOOLEAN}
KwIteraciones == {EmptyKw} \cup {"iteraciones" :> n : n \in 1..MaxIter}
KwExtra == {EmptyKw, "delta_x" :> Scale}

Start(f, d, t, kw) ==
    /\ func = f
    /\ dominio = d
    /\ tipo = t
    /\ kwargs = kw

Init ==
    /\ pc = "inicio"
    /\ \/ \E f \in Tablas, d \in Listas, m \in KwMaximizar, e \in KwExtra :
             Start(f, d, "discreto", m @@ e)
       \/ \E f \in Formulas, d \in Intervalos \cup Malformados,
             t \in {"discreto", "bogus"}, m \in KwMaximizar :
             Start(f, d, t, m)
       \/ \E f \in Formulas, d \in Intervalos \cup Malformados,
             m \in KwMaximizar, dx \in KwDelta, r \in KwRefinamiento,
             i \in KwIteraciones :
             Start(f, d, "continuo", m @@ dx @@ r @@ i)
    /\ maximizar = TRUE
    /\ x_values = << >>
    /\ idx = 0
    /\ x_opt = None
    /\ f_opt = None
    /\ a = 0
    /\ b = 0
    /\ delta_x = 0
    /\ refinamiento = FALSE
    /\ iteraciones = 0
    /\ ronda = 0
    /\ cx_opt = None
    /\ cf_opt = None
    /\ result = <<None, None>>
    /\ exc = ""
    /\ calls = << >>
    /\ nfunc = 0
    /\ nscan = 0
    /\ ncont = 0
    /\ hist = << >>

Next ==
    \/ DespachoDiscreto
    \/ DespachoContinuo
    \/ DespachoInvalido
    \/ RondaInicio
    \/ ScanPaso
    \/ ScanRetorno
    \/ Refinar
    \/ ContinuaRetorno

Spec == Init /\ [][Next]_vars

----------------------------------------------------------------------------
(* What the scanner handed back last: to the caller of the dispatcher in    *)
(* discrete mode, to the refiner in continuous mode.                        *)

ScanTerminado == nscan > 0 /\ pc # "scan"

Devuelto == IF tipo = "discreto" THEN result ELSE <<cx_opt, cf_opt>>

ScanDevuelto ==
    \/ tipo = "discreto" /\ pc = "fin"
    \/ tipo = "continuo" /\ pc = "refinar"

Valores(f, dom) == {Apply(f, dom[i]) : i \in 1..Len(dom)}

EsExtremo(v, S, mx) ==
    /\ v \in S
    /\ \A w \in S : IF mx THEN ~Gt(w, v) ELSE ~Lt(w, v)

PrimeroCon(f, dom, v) ==
    dom[CHOOSE i \in 1..Len(dom) :
            /\ Apply(f, dom[i]) = v
            /\ \A j \in 1..(i - 1) : Apply(f, dom[j]) # v]

ExtremoPrimero ==
    /\ EsExtremo(Devuelto[2], Valores(func, x_values), maximizar)
    /\ Devuelto[1] = Num(PrimeroCon(func, x_values, Devuelto[2]))

\* C1: on a non-empty candidate sequence the scanner returns the maximum
\* (minimum when minimising) of f over the sequence, together with the first
\* candidate of the sequence that attains it.
C1_ExtremoPrimero ==
    (ScanDevuelto /\ x_values # << >>) => ExtremoPrimero

\* The statement of C1 for objectives that attain a value other than the
\* initial sentinel: it holds, so the sentinel is the only case that fails.
C1_SalvoCentinela ==
    (/\ ScanDevuelto
     /\ x_values # << >>
     /\ Valores(func, x_values) # {IF maximizar THEN NegInf ELSE PosInf})
        => ExtremoPrimero

\* C2: during a scan func is called once per position of the sequence, in
\* order and on nothing else: the calls made so far are the first idx
\* candidates, and when the scanner returns they are the whole sequence.
C2_CallsInOrder ==
    /\ pc = "scan" => calls = SubSeq(x_values, 1, idx)
    /\ ScanTerminado => calls = x_values /\ Len(calls) = Len(x_values)
    /\ (tipo = "discreto" /\ pc = "fin") => nfunc = Len(dominio.elems)

C2_Witness ==
    /\ tipo = "discreto"
    /\ pc = "fin"
    /\ Len(calls) >= 2
    /\ calls[1] # calls[2]

\* C3: a scan of the empty sequence calls func not at all and returns
\* (None, -inf) when maximising and (None, +inf) when minimising; it raises
\* nothing.
C3_Vacio ==
    (nscan > 0 /\ x_values = << >>) =>
        /\ calls = << >>
        /\ x_opt = None
        /\ f_opt = (IF maximizar THEN NegInf ELSE PosInf)
        /\ tipo = "discreto" =>
              /\ pc # "error"
              /\ nfunc = 0
              /\ pc = "fin" =>
                    result = <<None, IF maximizar THEN NegInf ELSE PosInf>>

C3_Witness ==
    /\ tipo = "discreto"
    /\ pc = "fin"
    /\ dominio.elems = << >>
    /\ ~maximizar
    /\ result = <<None, PosInf>>

----------------------------------------------------------------------------
(* The arguments of a continuous call, as passed *)

A0 == dominio.elems[1]
B0 == dominio.elems[2]
Delta0 == kwargs["delta_x"]

ContinuaEnCurso ==
    /\ tipo = "continuo"
    /\ pc # "inicio"
    /\ dominio.kind = "tuple"
    /\ Len(dominio.elems) = 2

\* a, a + d, a + 2d, ... up to and including the first value >= hi
RECURSIVE GridHasta(_, _, _)
GridHasta(x, hi, d) ==
    IF x >= hi THEN <<x>> ELSE <<x>> \o GridHasta(x + d, hi, d)

Rango(s) == {s[i] : i \in 1..Len(s)}

C5_ValueError ==
    (/\ pc # "inicio"
     /\ \/ tipo \notin {"discreto", "continuo"}
        \/ /\ tipo = "continuo"
           /\ ~(dominio.kind = "tuple" /\ Len(dominio.elems) = 2)) =>
        /\ pc = "error"
        /\ exc = "ValueError"
        /\ nfunc = 0
        /\ nscan = 0
        /\ ncont = 0

C5_Witness ==
    /\ pc = "error"
    /\ exc = "ValueError"
    /\ tipo = "continuo"
    /\ dominio.kind = "tuple"
    /\ Len(dominio.elems) = 3

\* C6: a discrete call whose bag holds keys other than maximizar completes
\* without error and returns what the scanner returns for the same function,
\* domain and the bag's maximizar (default True).
C6_ExtrasIgnoradas ==
    (/\ tipo = "discreto"
     /\ pc # "inicio"
     /\ ~(DOMAIN kwargs \subseteq {"maximizar"})) =>
        /\ pc \in {"scan", "fin"}
        /\ exc = ""
        /\ pc = "fin" =>
              result = maquina_turing_discreta(func, dominio.elems,
                                               Get(kwargs, "maximizar", TRUE))

----------------------------------------------------------------------------
(* Refinement rounds *)

Abs(n) == IF n < 0 THEN -n ELSE n

\* Distance of a round's best pair from the optimum x = 2, f = 4 of f_continua
ErrX(h) == Abs(h.x_opt[2] - 2 * Scale)
ErrF(h) == Abs(h.f_opt[2] - 4 * Scale * Scale)

ErrorNoCrece ==
    \A k \in 1..(Len(hist) - 1) :
        /\ ErrX(hist[k + 1]) <= ErrX(hist[k])
        /\ ErrF(hist[k + 1]) <= ErrF(hist[k])

MaximizaParabola ==
    /\ ContinuaEnCurso
    /\ refinamiento
    /\ maximizar
    /\ func.kind = "f_continua"
    /\ A0 <= B0

TieneSiguiente(k) == k < Len(hist) \/ pc \in {"ronda", "scan", "fin"}

Siguiente(k) ==
    IF k < Len(hist)
    THEN [a |-> hist[k + 1].a, b |-> hist[k + 1].b,
          delta_x |-> hist[k + 1].delta_x]
    ELSE [a |-> a, b |-> b, delta_x |-> delta_x]

\* C8: with refinement, after every round the next interval is
\* [max(a, x_opt - d), min(b, x_opt + d)] and the next step is d/2; the
\* bounds never leave the original [a0, b0] and successive intervals nest.
C8_Clamp ==
    (ContinuaEnCurso /\ refinamiento) =>
        \A k \in 1..Len(hist) :
            TieneSiguiente(k) =>
                LET h == hist[k]
                    n == Siguiente(k)
                    lo == h.x_opt[2] - h.delta_x
                    hi == h.x_opt[2] + h.delta_x
                IN  /\ n.a = (IF lo > h.a THEN lo ELSE h.a)
                    /\ n.b = (IF hi < h.b THEN hi ELSE h.b)
                    /\ 2 * n.delta_x = h.delta_x
                    /\ A0 <= n.a
                    /\ n.b <= B0
                    /\ h.a <= n.a
                    /\ n.b <= h.b

C8_Witness ==
    /\ ContinuaEnCurso
    /\ refinamiento
    /\ pc = "fin"
    /\ Len(hist) = 3
    /\ hist[1].a < hist[2].a
    /\ hist[2].a < hist[3].a
    /\ hist[3].b < hist[2].b
    /\ hist[2].b < hist[1].b

\* C9: without refinement no round changes a, b or the step, every round
\* scans the same grid and finds the same pair, and the pair returned is the
\* pair of the first round.
C9_SinRefinamiento ==
    (ContinuaEnCurso /\ ~refinamiento) =>
        /\ a = A0
        /\ b = B0
        /\ delta_x = Delta0
        /\ \A k \in 1..Len(hist) :
              /\ hist[k].x_values = hist[1].x_values
              /\ hist[k].x_opt = hist[1].x_opt
              /\ hist[k].f_opt = hist[1].f_opt
        /\ pc = "fin" =>
              /\ Len(hist) = iteraciones
              /\ result = <<hist[1].x_opt, hist[1].f_opt>>
              /\ result = maquina_turing_discreta(
                              func, Grid(A0, B0, Delta0), maximizar)

C9_Witness ==
    /\ ContinuaEnCurso
    /\ ~refinamiento
    /\ pc = "fin"
    /\ Len(hist) = 3
    /\ Len(hist[3].x_values) >= 2
    /\ IsNum(result[1])

FuncFinita ==
    \/ func.kind = "f_continua"
    \/ func.kind = "constante" /\ IsNum(func.c)

====
